---- MODULE Spec2Model ----
(***************************************************************************)
(* Model of kimlab_datalogging: thermocouple configuration and timed       *)
(* acquisition on a LabJack T-series device.                               *)
(*                                                                         *)
(*   03_my_thermocouple.py        read_and_log_thermocouple and helpers    *)
(*   04_read_plot_thermocouples.py  the same helpers (identical bodies)    *)
(*                                                                         *)
(* Conventions.                                                            *)
(*   - Python strings are TLA+ strings; "%s_X" % name is name \o "_X".     *)
(*   - Python floats that occur (1.0, 0.0, readings) are written as the    *)
(*     integers they equal (1.0 == 1 in Python).                           *)
(*   - Wall-clock times (datetime.now()) and timedeltas are integers in    *)
(*     microseconds, the resolution of datetime.  The clock only moves     *)
(*     forward: it advances by the duration of each device round trip and  *)
(*     of each wait; it is never set back during a session.                *)
(*   - An exception that leaves read_and_log_thermocouple uncaught sets    *)
(*     status = "raised" and error to the exception's type; pc keeps the   *)
(*     position at which it was raised.                                    *)
(***************************************************************************)
EXTENDS Integers, Sequences, FiniteSets, TLC

VARIABLES
    channels,                 \* argument: list of AIN numbers
    tc_type,                  \* argument: thermocouple type letter
    temp_unit,                \* argument: temperature unit letter
    num_iterations,           \* argument: number of readings
    seconds_between_readings, \* argument: cadence in seconds
    save_to,                  \* argument: "False" | "dir" | "file"
    pc,                       \* position in read_and_log_thermocouple
    status,                   \* "active" | "returned" | "raised"
    error,                    \* type of the exception that ended the call
    exit_code,                \* status passed to exit(), -1 when not called
    handle_open,              \* ljm handle returned by openS and not closed
    device_type,              \* info[0] of getHandleInfo, 0 before opening
    tc_index,                 \* local tc_index
    cjc,                      \* local (cjc_slope, cjc_offset)
    temp_unit_index,          \* local temp_unit_index
    channel_names,            \* local channel_names
    neg_channel_values,       \* local neg_channel_values
    neg_channel_registers,    \* local neg_channel_registers
    cjc_addresses,            \* local cjc_addresses
    k,                        \* index of the configuration loop in progress
    aNames,                   \* configure_ain_ef_registers: aNames
    aValues,                  \* configure_ain_ef_registers: aValues
    wlog,                     \* device: every eWriteName/eWriteNames call that returned or raised
    rlog,                     \* device: every eReadNames call that returned or raised
    interval,                 \* LJM interval timer of interval_handle 1
    waits,                    \* number of waitForNextInterval calls issued
    abcs_flattened,           \* local abcs_flattened
    labels_flattened,         \* local labels_flattened
    now,                      \* the wall clock read by datetime.now()
    start_time,               \* local start_time
    i,                        \* loop variable of the sampling loop
    times,                    \* local times
    delta_times,              \* local delta_times
    current_time,             \* local current_time of the tick in progress
    data_in,                  \* local data_in of the tick in progress
    data,                     \* local data (list of rows) before line 319
    loop_error,               \* what the except clause of the loop caught
    frame,                    \* the DataFrame built at line 319 (None before)
    saved,                    \* the file written by to_csv (None when not written)
    call                      \* FnSpec: the helper call under test

vars == << channels, tc_type, temp_unit, num_iterations, seconds_between_readings,
           save_to, pc, status, error, exit_code, handle_open, device_type,
           tc_index, cjc, temp_unit_index, channel_names, neg_channel_values,
           neg_channel_registers, cjc_addresses, k, aNames, aValues, wlog, rlog,
           interval, waits, abcs_flattened, labels_flattened, now, start_time, i,
           times, delta_times, current_time, data_in, data, loop_error, frame,
           saved, call >>

-----------------------------------------------------------------------------
(* Bounds of the model.                                                    *)

\* Largest iteration bound num_iterations explored.
MaxIter == 3
\* Largest AIN channel number explored.
MaxChannel == 3

\* Channel lists passed as `channels` (default [0]; main() passes [0,2]).
ChannelLists == { <<0>>, <<0, 2>>, <<1, MaxChannel>> }
\* Thermocouple type arguments: supported, upper case, unsupported, unknown.
TcTypeArgs == { "k", "K", "j", "x" }
\* Every type letter of the table, both cases, and letters outside it.
AllTcTypeArgs == { "e", "j", "k", "r", "t", "s", "n", "b", "c",
                   "E", "J", "K", "R", "T", "S", "N", "B", "C", "x", "f" }
\* Temperature unit arguments.
TempUnitArgs == { "C", "k", "x" }
AllTempUnitArgs == { "k", "c", "f", "K", "C", "F", "x" }
\* Cadence arguments, in seconds.
CadenceArgs == { 1, 2 }
\* Destination arguments: False, an existing directory, a file path.
SaveToArgs == { "False", "dir", "file" }
\* Duration of one eReadNames round trip, in microseconds; the second value
\* overruns a one-second cadence.
ReadCosts == { 200000, 1300000 }
\* Time between startInterval (line 260) and start_time (line 283).
SetupCosts == { 0, 1000 }
\* Values a derived register reads back.
ReadValues == { 20, 21 }

-----------------------------------------------------------------------------
(* Library constants (labjack.ljm.constants).                              *)

dtT4 == 4
dtT7 == 7
dtT8 == 8
GND == 199

\* Device types openS("ANY", ...) can return.
DeviceTypes == { dtT4, dtT7, dtT8 }

\* Python None.
None == << >>

-----------------------------------------------------------------------------
(* Pure helpers.                                                           *)

\* str.lower() on the one-letter arguments of the model.
UpperToLower == [ c \in { "E", "J", "K", "R", "T", "S", "N", "B", "C", "F" } |->
                    CASE c = "E" -> "e" [] c = "J" -> "j" [] c = "K" -> "k"
                      [] c = "R" -> "r" [] c = "T" -> "t" [] c = "S" -> "s"
                      [] c = "N" -> "n" [] c = "B" -> "b" [] c = "C" -> "c"
                      [] c = "F" -> "f" ]

lower(s) == IF s \in DOMAIN UpperToLower THEN UpperToLower[s] ELSE s

\* "AIN{}".format(channel)
create_analog_channel(channel) == "AIN" \o ToString(channel)

\* The dict ef_indices of set_tc_index.
ef_indices == [ t \in { "e", "j", "k", "r", "t", "s", "n", "b", "c" } |->
                  CASE t = "e" -> 20 [] t = "j" -> 21 [] t = "k" -> 22
                    [] t = "r" -> 23 [] t = "t" -> 24 [] t = "s" -> 25
                    [] t = "n" -> 27 [] t = "b" -> 28 [] t = "c" -> 30 ]

\* set_tc_index raises KeyError exactly when the lowered type is no key.
set_tc_index_raises(t) == lower(t) \notin DOMAIN ef_indices
set_tc_index(t) == ef_indices[lower(t)]

\* The dict temp_unit_index of get_temp_unit_index.
temp_unit_indices == [ u \in { "k", "c", "f" } |->
                         CASE u = "k" -> 0 [] u = "c" -> 1 [] u = "f" -> 2 ]

get_temp_unit_index_raises(u) == lower(u) \notin DOMAIN temp_unit_indices
get_temp_unit_index(u) == temp_unit_indices[lower(u)]

get_cjc_address_noDouble(dt, channel) ==
    IF dt = dtT8 THEN 600 + channel ELSE 60052

\* get_cjc_address: TEMPERATURE# on the T8, TEMPERATURE_DEVICE_K otherwise.
get_cjc_address(dt, channel) ==
    IF dt = dtT8 THEN 600 + 2 * channel ELSE 60052

set_cjc_slope_offset_defaultK(t) == << 1, 0 >>

\* set_cjc_slope_offset: (1.0, 0.0) for type k, a bare `return` (None) otherwise.
set_cjc_slope_offset(t) ==
    IF lower(t) = "k" THEN << 1, 0 >> ELSE None

\* get_read_ABC: the three read registers and the three labels of a channel.
get_read_ABC(channel_name) ==
    [ abcs   |-> << channel_name \o "_EF_READ_A",
                    channel_name \o "_EF_READ_B",
                    channel_name \o "_EF_READ_C" >>,
      labels |-> << "T_thermocouple_" \o channel_name,
                    "V_thermocouple_" \o channel_name,
                    "T_cold_junction_" \o channel_name >> ]

\* int(seconds_between_readings*10**6)
microseconds_between_readings(seconds) == seconds * 1000000

\* The five AIN_EF names appended for one channel (lines 148-170).
ef_names(channel_name) ==
    << channel_name \o "_EF_INDEX", channel_name \o "_EF_CONFIG_A",
       channel_name \o "_EF_CONFIG_B", channel_name \o "_EF_CONFIG_D",
       channel_name \o "_EF_CONFIG_E" >>

ef_values_swapped(tci, tui, cjc_address, cjc_slope, cjc_offset) ==
    << tui, tci, cjc_address, cjc_slope, cjc_offset >>

\* The five AIN_EF values appended for one channel (lines 148-170).
ef_values(tci, tui, cjc_address, cjc_slope, cjc_offset) ==
    << tci, tui, cjc_address, cjc_slope, cjc_offset >>

RECURSIVE Flatten(_)
\* [i for row in rows for i in row]
Flatten(rows) ==
    IF rows = << >> THEN << >> ELSE Head(rows) \o Flatten(Tail(rows))

-----------------------------------------------------------------------------
(* State of a call of read_and_log_thermocouple.                           *)

args == << channels, tc_type, temp_unit, num_iterations,
           seconds_between_readings, save_to >>
locals == << tc_index, cjc, temp_unit_index, channel_names, neg_channel_values,
             neg_channel_registers, cjc_addresses, aNames, aValues >>
lists == << abcs_flattened, labels_flattened >>
loopvars == << start_time, i, times, delta_times, current_time, data_in, data,
              loop_error >>
outputs == << frame, saved >>

NoCall == [ fn |-> "none", dt |-> 0, channel |-> 0, tc |-> "k", unit |-> "C",
            result |-> None ]

\* The state on entry to read_and_log_thermocouple with the given arguments.
SessionInit(chs, tc, tu, n, s, sv) ==
    /\ channels = chs
    /\ tc_type = tc
    /\ temp_unit = tu
    /\ num_iterations = n
    /\ seconds_between_readings = s
    /\ save_to = sv
    /\ pc = "open"
    /\ status = "active"
    /\ error = "none"
    /\ exit_code = -1
    /\ handle_open = FALSE
    /\ device_type = 0
    /\ tc_index = 0
    /\ cjc = None
    /\ temp_unit_index = 0
    /\ channel_names = << >>
    /\ neg_channel_values = << >>
    /\ neg_channel_registers = << >>
    /\ cjc_addresses = << >>
    /\ k = 1
    /\ aNames = << >>
    /\ aValues = << >>
    /\ wlog = << >>
    /\ rlog = << >>
    /\ interval = [ active |-> FALSE, period |-> 0, next |-> 0 ]
    /\ waits = 0
    /\ abcs_flattened = << >>
    /\ labels_flattened = << >>
    /\ now = 0
    /\ start_time = 0
    /\ i = 0
    /\ times = << >>
    /\ delta_times = << >>
    /\ current_time = 0
    /\ data_in = << >>
    /\ data = << >>
    /\ loop_error = "none"
    /\ frame = None
    /\ saved = None

Init ==
    /\ \E chs \in ChannelLists, tc \in TcTypeArgs, tu \in TempUnitArgs,
          n \in 1..MaxIter, s \in CadenceArgs, sv \in SaveToArgs :
            SessionInit(chs, tc, tu, n, s, sv)
    /\ call = NoCall

\* An exception nothing in read_and_log_thermocouple catches ends the call.
Raise(exc) ==
    /\ status' = "raised"
    /\ error' = exc

ljm_write_error_status_swallowed == "active"

\* Status of the call after eWriteName/eWriteNames raises LJMError during
\* configuration: no try statement encloses lines 245-260.
ljm_write_error_status == "raised"

\* Line 41, get_labjack_handle: openS opens a device or raises LJMError.
OpenS ==
    /\ status = "active" /\ pc = "open"
    /\ \/ /\ handle_open' = TRUE
          /\ pc' = "handle_info"
          /\ UNCHANGED << status, error >>
       \/ /\ Raise("LJMError")
          /\ UNCHANGED << handle_open, pc >>
    /\ UNCHANGED << args, exit_code, device_type, locals, k, wlog, rlog,
                    interval, waits, lists, now, loopvars, outputs, call >>

\* Lines 46-51: getHandleInfo reports the type of the opened device.
GetHandleInfo ==
    /\ status = "active" /\ pc = "handle_info"
    /\ \E d \in DeviceTypes : device_type' = d
    /\ pc' = "tc_index"
    /\ UNCHANGED << args, status, error, exit_code, handle_open, locals, k, wlog,
                    rlog, interval, waits, lists, now, loopvars, outputs, call >>

\* Line 233.
SetTcIndex ==
    /\ status = "active" /\ pc = "tc_index"
    /\ IF set_tc_index_raises(tc_type)
         THEN /\ Raise("KeyError")
              /\ UNCHANGED << tc_index, pc >>
         ELSE /\ tc_index' = set_tc_index(tc_type)
              /\ pc' = "cjc_slope"
              /\ UNCHANGED << status, error >>
    /\ UNCHANGED << args, exit_code, handle_open, device_type, cjc,
                    temp_unit_index, channel_names, neg_channel_values,
                    neg_channel_registers, cjc_addresses, aNames, aValues, k,
                    wlog, rlog, interval, waits, lists, now, loopvars, outputs,
                    call >>

\* Line 234: unpacking None raises TypeError.
SetCjcSlopeOffset ==
    /\ status = "active" /\ pc = "cjc_slope"
    /\ IF set_cjc_slope_offset(tc_type) = None
         THEN /\ Raise("TypeError")
              /\ UNCHANGED << cjc, pc >>
         ELSE /\ cjc' = set_cjc_slope_offset(tc_type)
              /\ pc' = "temp_unit"
              /\ UNCHANGED << status, error >>
    /\ UNCHANGED << args, exit_code, handle_open, device_type, tc_index,
                    temp_unit_index, channel_names, neg_channel_values,
                    neg_channel_registers, cjc_addresses, aNames, aValues, k,
                    wlog, rlog, interval, waits, lists, now, loopvars, outputs,
                    call >>

\* Lines 236-240.
GetTempUnitIndex ==
    /\ status = "active" /\ pc = "temp_unit"
    /\ IF get_temp_unit_index_raises(temp_unit)
         THEN /\ Raise("KeyError")
              /\ UNCHANGED << temp_unit_index, channel_names, pc >>
         ELSE /\ temp_unit_index' = get_temp_unit_index(temp_unit)
              /\ channel_names' =
                   [ j \in 1..Len(channels) |-> create_analog_channel(channels[j]) ]
              /\ pc' = "neg_ch"
              /\ UNCHANGED << status, error >>
    /\ UNCHANGED << args, exit_code, handle_open, device_type, tc_index, cjc,
                    neg_channel_values, neg_channel_registers, cjc_addresses,
                    aNames, aValues, k, wlog, rlog, interval, waits, lists, now,
                    loopvars, outputs, call >>

\* Line 248, one call of get_channel_value_register (lines 88-104): on the
\* T7 the negative channel is written and the pair is returned.
GetChannelValueRegister ==
    /\ status = "active" /\ pc = "neg_ch" /\ k <= Len(channel_names)
    /\ LET neg_channel_register == channel_names[k] \o "_NEGATIVE_CH" IN
       IF device_type = dtT7
         THEN \E ok \in BOOLEAN :
                /\ wlog' = Append(wlog, [ fn |-> "eWriteName",
                                          names |-> << neg_channel_register >>,
                                          values |-> << GND >>, ok |-> ok ])
                /\ IF ok
                     THEN /\ pc' = "neg_ch_append"
                          /\ UNCHANGED << status, error, exit_code >>
                     ELSE /\ status' = ljm_write_error_status
                          /\ error' = "LJMError"
                          /\ UNCHANGED << pc, exit_code >>
       ELSE IF device_type = dtT4
         THEN \* print(...); exit(0)
              /\ Raise("SystemExit")
              /\ exit_code' = 0
              /\ UNCHANGED << wlog, pc >>
         ELSE \* line 104 reads locals that no branch assigned
              /\ Raise("UnboundLocalError")
              /\ UNCHANGED << wlog, pc, exit_code >>
    /\ UNCHANGED << args, handle_open, device_type, locals, k, rlog, interval,
                    waits, lists, now, loopvars, outputs, call >>

\* Lines 249-250: the returned pair is appended and the loop of line 247
\* moves to the next channel.
AppendNegChannel ==
    /\ status = "active" /\ pc = "neg_ch_append"
    /\ neg_channel_values' = Append(neg_channel_values, GND)
    /\ neg_channel_registers' =
         Append(neg_channel_registers, channel_names[k] \o "_NEGATIVE_CH")
    /\ k' = k + 1
    /\ pc' = "neg_ch"
    /\ UNCHANGED << args, status, error, exit_code, handle_open, device_type,
                    tc_index, cjc, temp_unit_index, channel_names, cjc_addresses,
                    aNames, aValues, wlog, rlog, interval, waits, lists, now,
                    loopvars, outputs, call >>

\* Lines 252-255.
GetCjcAddresses ==
    /\ status = "active" /\ pc = "neg_ch" /\ k > Len(channel_names)
    /\ cjc_addresses' =
         [ j \in 1..Len(channels) |-> get_cjc_address(device_type, channels[j]) ]
    /\ pc' = "res_index"
    /\ k' = 1
    /\ UNCHANGED << args, status, error, exit_code, handle_open, device_type,
                    tc_index, cjc, temp_unit_index, channel_names,
                    neg_channel_values, neg_channel_registers, aNames, aValues,
                    wlog, rlog, interval, waits, lists, now, loopvars, outputs,
                    call >>

\* Line 257, set_resolution_index_registers (lines 133-140), one iteration:
\* writes the channel number to AIN#_RESOLUTION_INDEX.
SetResolutionIndexRegister ==
    /\ status = "active" /\ pc = "res_index" /\ k <= Len(channel_names)
    /\ \E ok \in BOOLEAN :
         /\ wlog' = Append(wlog, [ fn |-> "eWriteName",
                                   names |-> << channel_names[k] \o "_RESOLUTION_INDEX" >>,
                                   values |-> << channels[k] >>, ok |-> ok ])
         /\ IF ok
              THEN /\ k' = k + 1
                   /\ UNCHANGED << status, error >>
              ELSE /\ status' = ljm_write_error_status
                   /\ error' = "LJMError"
                   /\ UNCHANGED k
    /\ UNCHANGED << args, pc, exit_code, handle_open, device_type, locals, rlog,
                    interval, waits, lists, now, loopvars, outputs, call >>

\* set_resolution_index_registers returns; configure_ain_ef_registers starts
\* with empty aNames, aValues (lines 140, 144-145).
EnterConfigureAinEf ==
    /\ status = "active" /\ pc = "res_index" /\ k > Len(channel_names)
    /\ pc' = "ain_ef"
    /\ k' = 1
    /\ aNames' = << >>
    /\ aValues' = << >>
    /\ UNCHANGED << args, status, error, exit_code, handle_open, device_type,
                    tc_index, cjc, temp_unit_index, channel_names,
                    neg_channel_values, neg_channel_registers, cjc_addresses,
                    wlog, rlog, interval, waits, lists, now, loopvars, outputs,
                    call >>

\* Line 258, configure_ain_ef_registers, lines 146-170 of one iteration: the
\* five registers of the channel and their values are appended.
ConfigureAinEfRegisters ==
    /\ status = "active" /\ pc = "ain_ef" /\ k <= Len(channel_names)
    /\ aNames' = aNames \o ef_names(channel_names[k])
    /\ aValues' = aValues \o ef_values(tc_index, temp_unit_index,
                                       cjc_addresses[k], cjc[1], cjc[2])
    /\ pc' = "ain_ef_write"
    /\ UNCHANGED << args, status, error, exit_code, handle_open, device_type,
                    tc_index, cjc, temp_unit_index, channel_names,
                    neg_channel_values, neg_channel_registers, cjc_addresses, k,
                    wlog, rlog, interval, waits, lists, now, loopvars, outputs,
                    call >>

\* Line 173 of the same iteration: the whole accumulated list is written
\* (the eWriteNames call is inside the loop).
WriteAinEfRegisters ==
    /\ status = "active" /\ pc = "ain_ef_write"
    /\ \E ok \in BOOLEAN :
         /\ wlog' = Append(wlog, [ fn |-> "eWriteNames", names |-> aNames,
                                   values |-> aValues, ok |-> ok ])
         /\ IF ok
              THEN /\ k' = k + 1
                   /\ pc' = "ain_ef"
                   /\ UNCHANGED << status, error >>
              ELSE /\ status' = ljm_write_error_status
                   /\ error' = "LJMError"
                   /\ UNCHANGED << k, pc >>
    /\ UNCHANGED << args, exit_code, handle_open, device_type, locals, rlog,
                    interval, waits, lists, now, loopvars, outputs, call >>

\* Lines 259-260, set_time_interval_between_readings: startInterval arms the
\* timer of interval_handle 1; its first boundary is one period from now.
StartInterval ==
    /\ status = "active" /\ pc = "ain_ef" /\ k > Len(channel_names)
    /\ LET us == microseconds_between_readings(seconds_between_readings) IN
         interval' = [ active |-> TRUE, period |-> us, next |-> now + us ]
    /\ pc' = "read_list"
    /\ UNCHANGED << args, status, error, exit_code, handle_open, device_type,
                    locals, k, wlog, rlog, waits, lists, now, loopvars, outputs,
                    call >>

\* Lines 262-286: the flattened read list and labels, and start_time.
BuildReadList ==
    /\ status = "active" /\ pc = "read_list"
    /\ abcs_flattened' =
         Flatten([ j \in 1..Len(channel_names) |-> get_read_ABC(channel_names[j]).abcs ])
    /\ labels_flattened' =
         Flatten([ j \in 1..Len(channel_names) |-> get_read_ABC(channel_names[j]).labels ])
           \o << "time", "dt" >>
    /\ \E c \in SetupCosts :
         /\ now' = now + c
         /\ start_time' = now + c
    /\ pc' = "loop"
    /\ UNCHANGED << args, status, error, exit_code, handle_open, device_type,
                    locals, k, wlog, rlog, interval, waits, i, times,
                    delta_times, current_time, data_in, data, loop_error,
                    outputs, call >>

-----------------------------------------------------------------------------
(* The sampling loop, lines 288-317.  Each blocking device call is a step  *)
(* of its own, so that every position at which the call can be left is a   *)
(* state: pc = "read" is line 300 not yet returned, pc = "waiting" is      *)
(* line 313 not yet returned.                                              *)

\* Lines 294-295: dt = (current_time - start_time).total_seconds()
ElapsedSince(at, start) == at - start

LoopExceptPc_retry == "loop"

\* Lines 315-317: the except clause prints the exception and breaks out of
\* the loop; execution continues at line 319.
LoopExceptPc == "frame"

\* Lines 301-302: data_in with formatted_time and dt appended.
\* "%Y/%m/%d, %H:%M:%S.%f" keeps the microseconds, so formatted_time is
\* written as the clock value it formats.
Row(readings, at, dt) == readings \o << at, dt >>

\* Lines 291-296: the tick's timestamp and dt are appended to times and
\* delta_times before the read.
LoopStamp ==
    /\ status = "active" /\ pc = "loop" /\ i < num_iterations
    /\ current_time' = now
    /\ times' = Append(times, now)
    /\ delta_times' = Append(delta_times, ElapsedSince(now, start_time))
    /\ pc' = "read"
    /\ UNCHANGED << args, status, error, exit_code, handle_open, device_type,
                    locals, k, wlog, rlog, interval, waits, lists, now,
                    start_time, i, data_in, data, loop_error, outputs, call >>

\* Line 300: eReadNames returns one value per name, or raises LJMError,
\* which the except clause of line 315 catches.
LoopRead ==
    /\ status = "active" /\ pc = "read"
    /\ \E cost \in ReadCosts, v \in ReadValues, ok \in BOOLEAN :
         LET readings == IF ok THEN [ j \in 1..Len(abcs_flattened) |-> v ]
                               ELSE << >>
         IN
         /\ rlog' = Append(rlog, [ names |-> abcs_flattened, ok |-> ok,
                                   result |-> readings, at |-> current_time ])
         /\ now' = now + cost
         /\ IF ok
              THEN /\ data_in' = readings
                   /\ pc' = "append"
                   /\ UNCHANGED loop_error
              ELSE /\ loop_error' = "read"
                   /\ pc' = LoopExceptPc
                   /\ UNCHANGED data_in
    /\ UNCHANGED << args, status, error, exit_code, handle_open, device_type,
                    locals, k, wlog, interval, waits, lists, start_time, i,
                    times, delta_times, current_time, data, outputs, call >>

\* Lines 301-304: formatted_time and dt are appended to data_in, and data_in
\* to data.
LoopAppend ==
    /\ status = "active" /\ pc = "append"
    /\ data_in' = Row(data_in, current_time, delta_times[Len(delta_times)])
    /\ data' = Append(data, data_in')
    /\ pc' = "wait"
    /\ UNCHANGED << args, status, error, exit_code, handle_open, device_type,
                    locals, k, wlog, rlog, interval, waits, lists, now,
                    start_time, i, times, delta_times, current_time, loop_error,
                    outputs, call >>

\* Line 313: waitForNextInterval is called and blocks.
LoopWait ==
    /\ status = "active" /\ pc = "wait"
    /\ waits' = waits + 1
    /\ pc' = "waiting"
    /\ UNCHANGED << args, status, error, exit_code, handle_open, device_type,
                    locals, k, wlog, rlog, interval, lists, now, loopvars,
                    outputs, call >>

\* The boundary of the timer at which a wait entered at time `at` returns:
\* the next boundary, or, when that boundary has passed, the first boundary
\* after `at` ("if intervals are skipped, this function still waits until
\* the next complete interval").
WaitReturnsAt(timer, at) ==
    IF at <= timer.next
      THEN timer.next
      ELSE timer.next + ((at - timer.next) \div timer.period + 1) * timer.period

\* Line 313 returns at the boundary and the loop moves to its next
\* iteration (line 289), or waitForNextInterval raises LJMError, which the
\* except clause of line 315 catches.
LoopWaitReturn ==
    /\ status = "active" /\ pc = "waiting"
    /\ \E ok \in BOOLEAN :
         IF ok /\ interval.active
           THEN /\ now' = WaitReturnsAt(interval, now)
                /\ interval' = [ interval EXCEPT !.next = now' + interval.period ]
                /\ i' = i + 1
                /\ pc' = "loop"
                /\ UNCHANGED loop_error
           ELSE /\ loop_error' = "wait"
                /\ pc' = LoopExceptPc
                /\ UNCHANGED << now, interval, i >>
    /\ UNCHANGED << args, status, error, exit_code, handle_open, device_type,
                    locals, k, wlog, rlog, waits, lists, start_time, times,
                    delta_times, current_time, data_in, data, outputs, call >>

\* Line 289: range(num_iterations) is exhausted.
LoopDone ==
    /\ status = "active" /\ pc = "loop" /\ i >= num_iterations
    /\ pc' = "frame"
    /\ UNCHANGED << args, status, error, exit_code, handle_open, device_type,
                    locals, k, wlog, rlog, interval, waits, lists, now,
                    loopvars, outputs, call >>

\* Lines 319-322: the DataFrame of the rows, with the 'T unit' column.
BuildFrame ==
    /\ status = "active" /\ pc = "frame"
    /\ frame' = [ columns |-> labels_flattened \o << "T unit" >>,
                  rows |-> [ j \in 1..Len(data) |-> data[j] \o << temp_unit >> ] ]
    /\ pc' = "save"
    /\ UNCHANGED << args, status, error, exit_code, handle_open, device_type,
                    locals, k, wlog, rlog, interval, waits, lists, now,
                    loopvars, saved, call >>

\* Line 285: save_time_format "%Y_%m_%d_%H_%M_%S" keeps whole seconds only.
formatted_start_time(start) == start \div 1000000

\* DataFrame.to_csv: the header line and one line per row; with the index
\* (the default) every line starts with an extra cell, empty in the header
\* and the row's position, counted from 0, in the rows.
to_csv(df, index) ==
    IF index
      THEN [ header |-> << "" >> \o df.columns,
             lines  |-> [ j \in 1..Len(df.rows) |-> << j - 1 >> \o df.rows[j] ] ]
      ELSE [ header |-> df.columns, lines |-> df.rows ]

\* Lines 324-333 (03) and 243-251 (04): nothing for save_to False; for a
\* directory the file is named after the start time; otherwise the given
\* file is written.  mkdir and to_csv can raise OSError.  dir_index is the
\* index argument of the to_csv call of the directory branch.
SaveFrame(dir_index) ==
    /\ status = "active" /\ pc = "save"
    /\ IF save_to = "False"
         THEN /\ pc' = "close"
              /\ UNCHANGED << status, error, saved >>
         ELSE \E ok \in BOOLEAN :
                IF ok
                  THEN /\ saved' =
                            IF save_to = "dir"
                              THEN [ path |-> << "dir", formatted_start_time(start_time),
                                                 ".csv" >>,
                                     csv  |-> to_csv(frame, dir_index) ]
                              ELSE [ path |-> << "file" >>,
                                     csv  |-> to_csv(frame, FALSE) ]
                       /\ pc' = "close"
                       /\ UNCHANGED << status, error >>
                  ELSE /\ Raise("OSError")
                       /\ UNCHANGED << saved, pc >>
    /\ UNCHANGED << args, exit_code, handle_open, device_type, locals, k, wlog,
                    rlog, interval, waits, lists, now, loopvars, frame, call >>

\* Lines 324-333: line 330 calls to_csv without index=False.
Save == SaveFrame(TRUE)

\* Line 337: cleanInterval.
CleanInterval ==
    /\ status = "active" /\ pc = "close"
    /\ interval' = [ interval EXCEPT !.active = FALSE ]
    /\ pc' = "close_handle"
    /\ UNCHANGED << args, status, error, exit_code, handle_open, device_type,
                    locals, k, wlog, rlog, waits, lists, now, loopvars, outputs,
                    call >>

\* Lines 338-340: close, return.
Close ==
    /\ status = "active" /\ pc = "close_handle"
    /\ handle_open' = FALSE
    /\ status' = "returned"
    /\ UNCHANGED << args, pc, error, exit_code, device_type, locals, k, wlog,
                    rlog, interval, waits, lists, now, loopvars, outputs, call >>

\* The only external cancellation the script has: SIGINT.  KeyboardInterrupt
\* derives from BaseException, so `except Exception` (line 315) does not
\* catch it and it leaves the function from the position pc names: before
\* the step of that position has run, or, where the step is a blocking
\* device call (lines 300 and 313), while the call is blocked.
Interrupt ==
    /\ status = "active"
    /\ Raise("KeyboardInterrupt")
    /\ UNCHANGED << args, pc, exit_code, handle_open, device_type, locals, k,
                    wlog, rlog, interval, waits, lists, now, loopvars, outputs,
                    call >>

Next ==
    \/ OpenS
    \/ GetHandleInfo
    \/ SetTcIndex
    \/ SetCjcSlopeOffset
    \/ GetTempUnitIndex
    \/ GetChannelValueRegister
    \/ AppendNegChannel
    \/ GetCjcAddresses
    \/ SetResolutionIndexRegister
    \/ EnterConfigureAinEf
    \/ ConfigureAinEfRegisters
    \/ WriteAinEfRegisters
    \/ StartInterval
    \/ BuildReadList
    \/ LoopStamp
    \/ LoopRead
    \/ LoopAppend
    \/ LoopWait
    \/ LoopWaitReturn
    \/ LoopDone
    \/ BuildFrame
    \/ Save
    \/ CleanInterval
    \/ Close
    \/ Interrupt

Spec == Init /\ [][Next]_vars

-----------------------------------------------------------------------------
(* The helpers applied to drawn arguments.                                 *)

\* The arguments are drawn; the session is the one main() starts and stays
\* at its entry.
FnInit ==
    /\ SessionInit(<< 0, 2 >>, "k", "C", 1, 1, "file")
    /\ \E d \in DeviceTypes, c \in 0..MaxChannel, t \in AllTcTypeArgs,
          u \in AllTempUnitArgs :
            call = [ fn |-> "args", dt |-> d, channel |-> c, tc |-> t, unit |-> u,
                     result |-> None ]

session == << pc, status, error, exit_code, handle_open, device_type, k, wlog,
              rlog, interval, waits, now >>

CallGetCjcAddress ==
    /\ call.fn = "args"
    /\ call' = [ call EXCEPT !.fn = "get_cjc_address",
                             !.result = << get_cjc_address(call.dt, call.channel) >> ]
    /\ UNCHANGED << args, session, locals, lists, loopvars, outputs >>

CallSetCjcSlopeOffset ==
    /\ call.fn = "args"
    /\ call' = [ call EXCEPT !.fn = "set_cjc_slope_offset",
                             !.result = set_cjc_slope_offset(call.tc) ]
    /\ UNCHANGED << args, session, locals, lists, loopvars, outputs >>

CallSetTcIndex ==
    /\ call.fn = "args"
    /\ call' = [ call EXCEPT !.fn = "set_tc_index",
                             !.result = IF set_tc_index_raises(call.tc)
                                          THEN << "KeyError" >>
                                          ELSE << set_tc_index(call.tc) >> ]
    /\ UNCHANGED << args, session, locals, lists, loopvars, outputs >>

CallGetTempUnitIndex ==
    /\ call.fn = "args"
    /\ call' = [ call EXCEPT !.fn = "get_temp_unit_index",
                             !.result = IF get_temp_unit_index_raises(call.unit)
                                          THEN << "KeyError" >>
                                          ELSE << get_temp_unit_index(call.unit) >> ]
    /\ UNCHANGED << args, session, locals, lists, loopvars, outputs >>

FnNext ==
    \/ CallGetCjcAddress
    \/ CallSetCjcSlopeOffset
    \/ CallSetTcIndex
    \/ CallGetTempUnitIndex

FnSpec == FnInit /\ [][FnNext]_vars

-----------------------------------------------------------------------------
(* Properties.                                                             *)

\* The call has ended: it returned or an exception left it.
Terminal == status \in { "returned", "raised" }

\* Execution is past the sampling loop (line 319 or later).
AfterLoop == pc \in { "frame", "save", "close", "close_handle" }

\* Configuration (lines 245-260) has run to its end.
Configured == pc \in { "read_list", "loop", "read", "append", "wait", "waiting",
                       "frame", "save", "close", "close_handle" }

\* The dt column of a row.
DtOf(row) == row[Len(row)]

\* Row j of data is what read j returned, stamped with the time of read j.
RowOfRead(j) ==
    data[j] = Row(rlog[j].result, rlog[j].at, ElapsedSince(rlog[j].at, start_time))

\* C1: on every exit path of a session that has opened the device (normal
\* completion, read failure in the loop, register write failure during
\* configuration, unsupported thermocouple type, unsupported device variant)
\* the device handle is closed and the interval timer is cleared when the
\* session ends.
C1_ReleasedOnEveryExit ==
    ( /\ Terminal
      /\ device_type # 0
      /\ error \in { "none", "LJMError", "KeyError", "TypeError", "SystemExit" } )
    => ( ~handle_open /\ ~interval.active )

\* C2: if the batched read fails on tick k, the loop stops without retrying
\* that tick or attempting a later one, and the records handed on are exactly
\* the k-1 rows of the earlier successful reads, unchanged and in order.
C2_ReadFailureKeepsEarlierRecords ==
    loop_error = "read" =>
        LET kk == i + 1 IN
        /\ Len(rlog) = kk
        /\ ~rlog[kk].ok
        /\ \A j \in 1..(kk - 1) : rlog[j].ok
        /\ Len(data) = kk - 1
        /\ \A j \in 1..(kk - 1) : RowOfRead(j)
        /\ AfterLoop
        /\ frame # None =>
             /\ Len(frame.rows) = kk - 1
             /\ \A j \in 1..(kk - 1) : frame.rows[j] = data[j] \o << temp_unit >>

\* C2 witness: the third read failed and the session returned with the two
\* earlier rows.
C2_Witness ==
    /\ loop_error = "read"
    /\ Len(rlog) = 3
    /\ Len(data) = 2
    /\ status = "returned"
    /\ Len(frame.rows) = 2

\* C3: with no read failure the loop produces exactly num_iterations rows,
\* one per tick in read order, with strictly increasing dt.
C3_NoReadFailureYieldsAllRecords ==
    ( AfterLoop /\ loop_error # "read" ) =>
        /\ Len(data) = num_iterations
        /\ Len(rlog) = num_iterations
        /\ \A j \in 1..Len(data) : RowOfRead(j)
        /\ \A j \in 1..(Len(data) - 1) : DtOf(data[j]) < DtOf(data[j + 1])

\* An error reaches the caller: an exception other than a SystemExit with
\* status 0, which ends the process reporting success.
ErrorSurfaced ==
    /\ status = "raised"
    /\ ~ ( error = "SystemExit" /\ exit_code = 0 )

\* C4: on the unsupported device variant the session surfaces an error
\* result to the caller during configuration and issues no register write.
C4_UnsupportedDeviceSurfaced ==
    ( /\ device_type = dtT4
      /\ pc = "neg_ch"
      /\ Terminal
      /\ error # "KeyboardInterrupt" )
    => ( ErrorSurfaced /\ Len(wlog) = 0 )

\* C5: the slope/offset resolver returns (1.0, 0.0) for type K and the
\* unsupported result (no pair at all) for every other type; it never
\* returns K's values or any pair for a non-K type.
C5_SlopeOffsetOnlyForK ==
    call.fn = "set_cjc_slope_offset" =>
        /\ call.tc \in { "k", "K" } => call.result = << 1, 0 >>
        /\ call.tc \notin { "k", "K" } =>
             ( call.result = None /\ Len(call.result) # 2 )

\* C5 witness: the resolver was applied to type J and returned no pair.
C5_Witness ==
    /\ call.fn = "set_cjc_slope_offset"
    /\ call.tc = "J"
    /\ call.result = None

\* C6: a configuration-time error of the mapper or resolver (unknown or
\* unsupported thermocouple type, unknown unit) is raised before the device
\* has been opened and before any register has been written.
C6_ConfigErrorBeforeHardware ==
    ( status = "raised" /\ error \in { "KeyError", "TypeError" } )
    => ( ~handle_open /\ device_type = 0 /\ Len(wlog) = 0 )

\* C7: on the T8 (per-channel temperature registers) the CJC address of
\* channel c is 600 + 2*c; on the T7 (one device temperature register) it
\* is 60052 for every channel.
C7_CjcAddress ==
    call.fn = "get_cjc_address" =>
        /\ call.dt = dtT8 => call.result = << 600 + 2 * call.channel >>
        /\ call.dt = dtT7 => call.result = << 60052 >>

\* C7 witness: the address of channel 3 was resolved on a T8.
C7_Witness ==
    /\ call.fn = "get_cjc_address"
    /\ call.dt = dtT8
    /\ call.channel = 3
    /\ call.result = << 606 >>

\* C8: configuring channels [0,2] with type K and unit C on the T8 completes
\* with an extended-function plan of exactly the ten entries of AIN0 and
\* AIN2: type index 22, unit index 1, CJC address 600+2*c, slope 1.0,
\* offset 0.0.
C8_PlanForChannels02 ==
    ( /\ channels = << 0, 2 >>
      /\ tc_type \in { "k", "K" }
      /\ temp_unit = "C"
      /\ device_type = dtT8
      /\ Terminal
      /\ error # "KeyboardInterrupt" )
    => ( /\ Configured
         /\ aNames = << "AIN0_EF_INDEX", "AIN0_EF_CONFIG_A", "AIN0_EF_CONFIG_B",
                        "AIN0_EF_CONFIG_D", "AIN0_EF_CONFIG_E",
                        "AIN2_EF_INDEX", "AIN2_EF_CONFIG_A", "AIN2_EF_CONFIG_B",
                        "AIN2_EF_CONFIG_D", "AIN2_EF_CONFIG_E" >>
         /\ aValues = << 22, 1, 600, 1, 0, 22, 1, 604, 1, 0 >> )

\* C9: a register write that fails during configuration is the last write
\* of the session: it is not retried, no further write and no batched read
\* is issued, and the session has ended with that device error.
C9_WriteFailureAborts ==
    \A j \in 1..Len(wlog) :
        ~wlog[j].ok =>
            /\ j = Len(wlog)
            /\ status = "raised"
            /\ error = "LJMError"
            /\ Len(rlog) = 0
            /\ ~Configured

\* C9 witness: the extended-function batch write of the second channel
\* failed after four successful writes.
C9_Witness ==
    /\ Len(wlog) = 6
    /\ wlog[6].fn = "eWriteNames"
    /\ ~wlog[6].ok
    /\ \A j \in 1..5 : wlog[j].ok
    /\ status = "raised"

\* The sampling loop is running (lines 289-317).
InLoop == pc \in { "loop", "read", "append", "wait", "waiting" }

\* C10: a cancellation that arrives while the sampling loop runs (here: after
\* at least one row was collected) takes effect between ticks and ends the
\* session as completed, with the rows collected so far handed on in order
\* and no tick left with its timestamp appended but its row missing.
C10_CancellationCompletes ==
    ( /\ error = "KeyboardInterrupt"
      /\ InLoop
      /\ Len(data) >= 1 )
    => ( /\ status = "returned"
         /\ pc = "loop"
         /\ Len(times) = Len(data)
         /\ frame # None
         /\ Len(frame.rows) = Len(data) )

\* The device's register names of each channel number (the naming
\* convention AIN<channel>_<register> of the device's register map).
RegisterNames ==
    [ c \in 0..MaxChannel |->
        LET ain == "AIN" \o ToString(c) IN
        [ negative_ch      |-> ain \o "_NEGATIVE_CH",
          resolution_index |-> ain \o "_RESOLUTION_INDEX",
          ef_index         |-> ain \o "_EF_INDEX",
          ef_config_a      |-> ain \o "_EF_CONFIG_A",
          ef_config_b      |-> ain \o "_EF_CONFIG_B",
          ef_config_d      |-> ain \o "_EF_CONFIG_D",
          ef_config_e      |-> ain \o "_EF_CONFIG_E" ] ]

\* Every << register, value >> a successful write of the session has set.
RegistersSet ==
    UNION { { << wlog[j].names[m], wlog[j].values[m] >> :
                m \in 1..Len(wlog[j].names) } :
            j \in { j2 \in 1..Len(wlog) : wlog[j2].ok } }

\* Among the settings `set`, the register has been given `value` and never
\* any other value.
RegisterIs(set, name, value) ==
    /\ << name, value >> \in set
    /\ \A p \in set : p[1] = name => p[2] = value

\* Channel number c has its complete configuration among the settings `set`.
ChannelConfigured(set, c) ==
    LET reg == RegisterNames[c] IN
    /\ device_type = dtT7 => RegisterIs(set, reg.negative_ch, GND)
    /\ \E p \in set : p[1] = reg.resolution_index
    /\ RegisterIs(set, reg.ef_index, ef_indices[lower(tc_type)])
    /\ RegisterIs(set, reg.ef_config_a, temp_unit_indices[lower(temp_unit)])
    /\ RegisterIs(set, reg.ef_config_b, IF device_type = dtT8 THEN 600 + 2 * c
                                                              ELSE 60052)
    /\ RegisterIs(set, reg.ef_config_d, 1)
    /\ RegisterIs(set, reg.ef_config_e, 0)

\* C11: a batched read is issued (line 300 is reached, or a read has already
\* returned or raised) only after every configured channel has its
\* complete register configuration on the device: the negative-input
\* setting where the variant needs it, the resolution index, and the five
\* extended-function registers with the session's type index, unit index,
\* the channel's CJC address and the CJC slope and offset.
C11_ConfiguredBeforeFirstRead ==
    ( pc = "read" \/ Len(rlog) >= 1 ) =>
        /\ \A j \in 1..Len(wlog) : wlog[j].ok
        /\ LET set == RegistersSet IN
           \A c \in 1..Len(channels) : ChannelConfigured(set, channels[c])

\* C11 witness: the first read of a session on channels [0,2], after the six
\* configuration writes (two negative-channel, two resolution-index, two
\* extended-function batches).
C11_Witness ==
    /\ Len(rlog) = 1
    /\ channels = << 0, 2 >>
    /\ Len(wlog) = 6
    /\ ChannelConfigured(RegistersSet, 2)

-----------------------------------------------------------------------------
(* 04_read_plot_thermocouples.py, read_and_log_thermocouples: the same     *)
(* configuration (lines 156-178 repeat lines 232-260 of 03), then a        *)
(* matplotlib animation paces the reads until the plot window is closed.   *)
(* all_data is held in `data`; there is no num_iterations argument.        *)

LiveInit ==
    /\ \E chs \in ChannelLists, tc \in TcTypeArgs, tu \in TempUnitArgs,
          s \in CadenceArgs, sv \in SaveToArgs :
            SessionInit(chs, tc, tu, 0, s, sv)
    /\ call = NoCall

\* Lines 180-207: the flattened read list and labels, start_time, the figure.
LiveBuildReadList ==
    /\ status = "active" /\ pc = "read_list"
    /\ abcs_flattened' =
         Flatten([ j \in 1..Len(channel_names) |-> get_read_ABC(channel_names[j]).abcs ])
    /\ labels_flattened' =
         Flatten([ j \in 1..Len(channel_names) |-> get_read_ABC(channel_names[j]).labels ])
           \o << "time", "dt" >>
    /\ \E c \in SetupCosts :
         /\ now' = now + c
         /\ start_time' = now + c
    /\ pc' = "live_loop"
    /\ UNCHANGED << args, status, error, exit_code, handle_open, device_type,
                    locals, k, wlog, rlog, interval, waits, i, times,
                    delta_times, current_time, data_in, data, loop_error,
                    outputs, call >>

\* Lines 210-212, the GUI timer (line 236) calls animate: the timestamp of
\* the frame is taken before the read.
AnimateStamp ==
    /\ status = "active" /\ pc = "live_loop" /\ Len(rlog) < MaxIter
    /\ current_time' = now
    /\ pc' = "live_read"
    /\ UNCHANGED << args, status, error, exit_code, handle_open, device_type,
                    locals, k, wlog, rlog, interval, waits, lists, now,
                    start_time, i, times, delta_times, data_in, data, loop_error,
                    outputs, call >>

\* Line 214 of the same call: one batched read.  No waitForNextInterval is
\* called.  An LJMError raised inside the callback either leaves plt.show()
\* or is reported by the GUI toolkit, which then stops calling animate.
Animate ==
    /\ status = "active" /\ pc = "live_read"
    /\ \E cost \in ReadCosts, v \in ReadValues, ok \in BOOLEAN :
         LET readings == IF ok THEN [ j \in 1..Len(abcs_flattened) |-> v ]
                               ELSE << >>
         IN
         /\ rlog' = Append(rlog, [ names |-> abcs_flattened, ok |-> ok,
                                   result |-> readings, at |-> current_time ])
         /\ now' = now + cost
         /\ IF ok
              THEN /\ data_in' = readings
                   /\ pc' = "live_append"
                   /\ UNCHANGED << status, error, loop_error >>
              ELSE /\ loop_error' = "read"
                   /\ UNCHANGED data_in
                   /\ \/ /\ Raise("LJMError")
                         /\ UNCHANGED pc
                      \/ /\ pc' = "live_stalled"
                         /\ UNCHANGED << status, error >>
    /\ UNCHANGED << args, exit_code, handle_open, device_type, locals, k, wlog,
                    interval, waits, lists, start_time, i, times, delta_times,
                    current_time, data, outputs, call >>

\* Lines 216-234 of the same call: the row is appended to all_data, the
\* time to times, the plot is redrawn and animate returns to the GUI event
\* loop.
AnimateAppend ==
    /\ status = "active" /\ pc = "live_append"
    /\ data' = Append(data, Row(data_in, current_time,
                                ElapsedSince(current_time, start_time)))
    /\ times' = Append(times, current_time)
    /\ pc' = "live_idle"
    /\ UNCHANGED << args, status, error, exit_code, handle_open, device_type,
                    locals, k, wlog, rlog, interval, waits, lists, now,
                    start_time, i, delta_times, current_time, data_in,
                    loop_error, outputs, call >>

\* Line 236, FuncAnimation(fig, animate, interval=seconds_between_readings
\* * 1000): the times at which the GUI timer can call animate again after a
\* call entered at called_at that returned at returned_at.  The timer is
\* the GUI backend's: a periodic timer fires one interval after the
\* previous call, or as soon as the callback is over when that time has
\* passed; a timer re-armed after the callback fires one interval after
\* the return.
FrameTimes(called_at, returned_at) ==
    LET us == microseconds_between_readings(seconds_between_readings)
        due == called_at + us
    IN { IF returned_at < due THEN due ELSE returned_at, returned_at + us }

\* Lines 236-237: the event loop of plt.show() idles until the GUI timer
\* fires for the next frame.
TimerFires ==
    /\ status = "active" /\ pc = "live_idle"
    /\ \E t \in FrameTimes(current_time, now) : now' = t
    /\ pc' = "live_loop"
    /\ UNCHANGED << args, status, error, exit_code, handle_open, device_type,
                    locals, k, wlog, rlog, interval, waits, lists, loopvars,
                    outputs, call >>

\* Line 237: plt.show() returns when the plot window is closed.
CloseWindow ==
    /\ status = "active" /\ pc \in { "live_loop", "live_idle", "live_stalled" }
    /\ pc' = "frame"
    /\ UNCHANGED << args, status, error, exit_code, handle_open, device_type,
                    locals, k, wlog, rlog, interval, waits, lists, now,
                    loopvars, outputs, call >>

\* Lines 243-251: both to_csv calls pass index=False.
LiveSave == SaveFrame(FALSE)

\* After the window is closed lines 239-256 build the DataFrame, save it and
\* release the timer and the handle, as lines 319-340 of 03 do.
LiveNext ==
    \/ OpenS
    \/ GetHandleInfo
    \/ SetTcIndex
    \/ SetCjcSlopeOffset
    \/ GetTempUnitIndex
    \/ GetChannelValueRegister
    \/ AppendNegChannel
    \/ GetCjcAddresses
    \/ SetResolutionIndexRegister
    \/ EnterConfigureAinEf
    \/ ConfigureAinEfRegisters
    \/ WriteAinEfRegisters
    \/ StartInterval
    \/ LiveBuildReadList
    \/ AnimateStamp
    \/ Animate
    \/ AnimateAppend
    \/ TimerFires
    \/ CloseWindow
    \/ BuildFrame
    \/ LiveSave
    \/ CleanInterval
    \/ Close
    \/ Interrupt

LiveSpec == LiveInit /\ [][LiveNext]_vars

\* Exactly one waitForNextInterval call lies between any two consecutive
\* batched reads.
OneWaitBetweenReads ==
    Len(rlog) >= 1 => ( Len(rlog) - 1 <= waits /\ waits <= Len(rlog) )

\* Every read after the first is issued one cadence after the read before it.
OneCadenceBetweenReads ==
    \A j \in 1..(Len(rlog) - 1) :
        rlog[j + 1].at =
            rlog[j].at + microseconds_between_readings(seconds_between_readings)

\* C12: the interval is started with the configured cadence before the first
\* tick, between any two consecutive batched reads the loop blocks on exactly
\* one waitForNextInterval call on that interval, and so each tick begins
\* one cadence after the previous tick began.
C12_PacedByIntervalWaits ==
    /\ Len(rlog) >= 1 =>
         interval.period = microseconds_between_readings(seconds_between_readings)
    /\ OneWaitBetweenReads
    /\ OneCadenceBetweenReads

====
